---- MODULE Spec2Model ----
(***************************************************************************)
(* bitscan (src/bitscan.go): the POST /v1/scanObject.async handler, the    *)
(* goroutine it spawns (processScan -> scan -> getTempFilename) and the    *)
(* Slack notifier (sendWebhook), over a shared file system, a shared       *)
(* tmpDir variable, the SeaweedFS store, the clamscan engine and the       *)
(* webhook endpoint.                                                       *)
(*                                                                         *)
(* Go strings are sequences of tokens (<<"Error scanning ", k>>), so *)
(* that concatenation is \o and "contains" is membership of a token.  A Go *)
(* error is a token sequence; the nil error is the empty sequence.         *)
(***************************************************************************)
EXTENDS Naturals, Sequences, FiniteSets, TLC

\* Number of requests the service receives in a behaviour.
MaxReq == 2

Reqs == 1..MaxReq

----------------------------------------------------------------------------
(* Go values and strings                                                   *)

\* The nil error.
NoErr == <<>>

\* A Go *string: nil, or a pointer (an address) to a string.
NilPtr == [kind |-> "nilptr", addr |-> "", elem |-> ""]

StrPtr(a, s) == [kind |-> "ptr", addr |-> a, elem |-> s]

\* strings.HasPrefix(s, prefix)
HasPrefix(s, prefix) ==
    /\ Len(s) >= Len(prefix)
    /\ SubSeq(s, 1, Len(prefix)) = prefix

\* strings.Contains, for one token.
Contains(s, tok) == \E i \in 1..Len(s) : s[i] = tok

\* fmt's %s verb applied to a *string operand: fmt does not dereference the
\* pointer, it prints the bad-verb form with the address.
FmtPtrS(p) ==
    IF p.kind = "nilptr"
    THEN <<"%!s(*string=", "<nil>", ")">>
    ELSE <<"%!s(*string=", p.addr, ")">>

----------------------------------------------------------------------------
(* Requests                                                                *)

\* const applicationJSON = "application/json"
applicationJSON == <<"application/json">>

\* Values of the Content-Type request header (absent: the empty string).
ContentTypes ==
    { <<"application/json">>,
      <<"application/json", "; charset=utf-8">>,
      <<"text/plain">>,
      <<>> }

\* The objects a request body can describe (type object): one with every
\* member, one with the members bucket_key and key only.  BackendFileID and
\* MD5Hash are pointer fields, nil when the JSON member is absent or null.
Objects ==
    { [BucketKey |-> "bkt/key1", Key |-> <<"key1", ".exe">>,
       BackendFileID |-> StrPtr("0xc000010000", "3,01637037d6"),
       MD5Hash |-> StrPtr("0xc000010010", "44d88612fea8a8f36de82e1278abb02f")],
      [BucketKey |-> "bkt/key2", Key |-> <<"key2">>,
       BackendFileID |-> NilPtr,
       MD5Hash |-> NilPtr] }

FullObject == CHOOSE o \in Objects : o.BucketKey = "bkt/key1"

\* Request bodies: text that is no JSON, or a JSON object with a "type"
\* member (a number) and the members of an object.
Bodies ==
    { [json |-> FALSE, type |-> 0, obj |-> FullObject] }
    \cup { [json |-> TRUE, type |-> 0, obj |-> o] : o \in Objects }
    \cup { [json |-> TRUE, type |-> t, obj |-> FullObject] : t \in {1, 256} }

\* json.Unmarshal(ctx.PostBody(), data) into an object: it fails on text that
\* is no JSON and on a number that does not fit the uint8 field Type.
Unmarshal(body) ==
    IF ~body.json THEN [err |-> <<"invalid character">>, data |-> FullObject, Type |-> 0]
    ELSE IF body.type > 255
         THEN [err |-> <<"cannot unmarshal number into Go struct field object.type of type uint8">>,
               data |-> body.obj, Type |-> 0]
         ELSE [err |-> NoErr, data |-> body.obj, Type |-> body.type]

\* The three checks of the handler, in the order of the code: the first one
\* that fails decides the rejection; "ok" when all pass.
ValidateNoTypeCheck(ct, body) ==
    IF ~HasPrefix(ct, applicationJSON) THEN "ctype"
    ELSE IF Unmarshal(body).err # NoErr THEN "parse"
    ELSE "ok"

Validate(ct, body) ==
    IF ~HasPrefix(ct, applicationJSON) THEN "ctype"
    ELSE IF Unmarshal(body).err # NoErr THEN "parse"
    ELSE IF Unmarshal(body).Type # 0 THEN "type"
    ELSE "ok"

\* The response written for each exit of the handler: the HTTP status set on
\* ctx and the "code" and "message" members of the JSON body printed.
NoResp == [status |-> 0, code |-> 0, message |-> ""]

RejectResponse(v) ==
    CASE v = "ctype" -> [status |-> 400, code |-> 400,
                         message |-> "Bad Request (Content-Type not JSON)"]
      [] v = "parse" -> [status |-> 400, code |-> 400,
                         message |-> "Bad Request (could not parse JSON body)"]
      [] v = "type"  -> [status |-> 400, code |-> 400,
                         message |-> "Bad Request (invalid object type)"]

AcceptResponse ==
    [status |-> 202, code |-> 201, message |-> "Accepted (processing asynchronously)"]

\* The responses of the router outside POST /v1/scanObject.async: GET /
\* (lines 153-158), NotFound (131-135), MethodNotAllowed (136-140) and
\* PanicHandler (141-147).
OtherRoutes == {"index", "notfound", "notallowed"}

RouterResponse(route) ==
    CASE route = "index"      -> [status |-> 200, code |-> 200, message |-> "index"]
      [] route = "notfound"   -> [status |-> 404, code |-> 404, message |-> "Not Found"]
      [] route = "notallowed" -> [status |-> 405, code |-> 405,
                                  message |-> "Method Not Allowed"]
      [] route = "panic"      -> [status |-> 500, code |-> 500,
                                  message |-> "Internal Server Error"]

----------------------------------------------------------------------------
(* The file system, the store, the scan engine and the webhook endpoint    *)

\* The empty string (the zero value of var tmpDir).
EmptyString == <<>>

\* uniuri.New() returns a random 16-character token (62^16 values), modelled
\* as a token never returned before: the one named after the goroutine and
\* the line that asks for it (each goroutine runs each line at most once).
uniuriNew(r, line) == <<r, line>>

\* os.TempDir() + "/bitscan_" + uniuri.New()
BitscanDir(n) == <<"/tmp", "/bitscan_", n>>

\* tmpDir + "/" + uniuri.New() + ext
TempPath(dir, n, ext) == dir \o <<"/", n, ext>>

\* The directory part of a path built by TempPath.
PathDir(p) == SubSeq(p, 1, Len(p) - 3)

\* path.Ext(object.Key): the suffix of the key from its last dot, "" if none.
Ext(key) ==
    IF Len(key) > 1 /\ key[Len(key)] \in {".exe", ".bin"} THEN key[Len(key)] ELSE ""

\* os.Stat(name) followed by err != nil || !info.IsDir().
StatIsDir(name, ds) == name \in ds

\* Outcomes of os.Mkdir and os.Create that the environment decides (no space
\* left, permission denied); "ok" where the call is allowed to succeed.
SyscallOutcomes == {"ok", "fail"}

\* Outcomes of seaweed.Get: the nil error, or a transport / lookup failure.
FetchOutcomes == { NoErr, <<"file not found">> }

\* *clamscan.Result
CleanResult    == [Error |-> NoErr, Found |-> FALSE, Virus |-> ""]
DetectedResult == [Error |-> NoErr, Found |-> TRUE, Virus |-> "Eicar-Test-Signature"]
ErrorResult    == [Error |-> <<"exit status 2">>, Found |-> FALSE, Virus |-> ""]
ErrorFoundResult == [Error |-> <<"exit status 2">>, Found |-> TRUE,
                     Virus |-> "Eicar-Test-Signature"]

\* Outcomes of clamscan.Scan followed by <-res: an error starting the engine,
\* or the result received from the channel.
ScanOutcomes ==
    { [err |-> <<"exec: clamscan: executable file not found">>, res |-> CleanResult] }
    \cup { [err |-> NoErr, res |-> x] :
             x \in {CleanResult, DetectedResult, ErrorResult, ErrorFoundResult} }

\* Outcomes of httpClient.Post: net/http returns a non-nil error for a
\* transport failure (and a timeout) only; a response with any status code,
\* 2xx or not, comes back with a nil error.
PostOutcomes ==
    { [err |-> <<"dial tcp: connection refused">>, status |-> 0] }
    \cup { [err |-> NoErr, status |-> c] : c \in {200, 500} }

\* Values of notifications.slackWebhookURL ("" is the default: unset).
WebhookURLs == { "", "https://hooks.slack.example/services/T0/B0/X" }

----------------------------------------------------------------------------
(* sendWebhook and the messages of processScan.  <bq> stands for the        *)
(* backquote character of the Go string literals.                          *)

NoMessage == [title |-> <<>>, text |-> <<>>, color |-> ""]

\* The branch processScan takes on what scan returned.
processScanBranchFoundFirst(err, res) ==
    IF err # NoErr THEN "scanErr"
    ELSE IF res.Found THEN "found"
    ELSE IF res.Error # NoErr THEN "resErr"
    ELSE "clean"

processScanBranchNotifyClean(err, res) ==
    IF err # NoErr THEN "scanErr"
    ELSE IF res.Error # NoErr THEN "resErr"
    ELSE "found"

processScanBranch(err, res) ==
    IF err # NoErr THEN "scanErr"
    ELSE IF res.Error # NoErr THEN "resErr"
    ELSE IF res.Found THEN "found"
    ELSE "clean"

\* The (title, text, color) processScan passes to sendWebhook in each branch.
processScanMessageInfoColor(branch, obj, err, res) ==
    CASE branch = "scanErr" ->
           [title |-> <<"Error scanning <bq>", obj.BucketKey, "<bq>">>,
            text  |-> <<"<bq><bq><bq>\n">> \o err \o <<"<bq><bq><bq>">>,
            color |-> "#439FE0"]
      [] branch = "resErr" ->
           [title |-> <<"Error scanning <bq>", obj.BucketKey, "<bq>">>,
            text  |-> <<"<bq><bq><bq>\n">> \o res.Error \o <<"<bq><bq><bq>">>,
            color |-> "#439FE0"]
      [] branch = "found" ->
           [title |-> <<"Positive file found: <bq>", obj.BucketKey, "<bq>">>,
            text  |-> <<"<bq>", obj.BucketKey, "<bq> (<bq>">> \o FmtPtrS(obj.MD5Hash)
                      \o <<"<bq>) returned positive during scan with virus <bq>", res.Virus,
                           "<bq>.\n\nIt has not been deleted from storage backend.">>,
            color |-> "#439FE0"]
      [] branch = "clean" -> NoMessage

processScanMessage(branch, obj, err, res) ==
    CASE branch = "scanErr" ->
           [title |-> <<"Error scanning <bq>", obj.BucketKey, "<bq>">>,
            text  |-> <<"<bq><bq><bq>\n">> \o err \o <<"<bq><bq><bq>">>,
            color |-> "danger"]
      [] branch = "resErr" ->
           [title |-> <<"Error scanning <bq>", obj.BucketKey, "<bq>">>,
            text  |-> <<"<bq><bq><bq>\n">> \o res.Error \o <<"<bq><bq><bq>">>,
            color |-> "danger"]
      [] branch = "found" ->
           [title |-> <<"Positive file found: <bq>", obj.BucketKey, "<bq>">>,
            text  |-> <<"<bq>", obj.BucketKey, "<bq> (<bq>">> \o FmtPtrS(obj.MD5Hash)
                      \o <<"<bq>) returned positive during scan with virus <bq>", res.Virus,
                           "<bq>.\n\nIt has not been deleted from storage backend.">>,
            color |-> "#439FE0"]
      [] branch = "clean" -> NoMessage

\* sendWebhook: whether it goes on to httpClient.Post (the URL is set) ...
sendWebhookPostsAlways(url) == TRUE

sendWebhookPosts(url) == url # ""

\* ... the attachment it posts ...
Attachment(msg) ==
    [Fallback |-> <<"**">> \o msg.title \o <<"**\n">> \o msg.text,
     Color |-> msg.color, Title |-> msg.title, Text |-> msg.text]

\* ... and the error it returns: nil without a URL, else Post's error.
sendWebhookReturn(url, outcome) ==
    IF url = "" THEN NoErr ELSE outcome.err

----------------------------------------------------------------------------
(* State                                                                   *)

VARIABLES
    webhookURL, \* viper's notifications.slackWebhookURL
    tmpDir,     \* var tmpDir string, shared by all goroutines
    dirs,       \* the directories that exist
    files,      \* the files that exist
    crashed,    \* the process died of an unrecovered panic in a goroutine
    req,        \* per request: the Content-Type header and the body received
    resp,       \* per request: the response written (NoResp: none yet)
    spawned,    \* per request: number of "go processScan(data)" executed
    pc,         \* per request: where its processScan goroutine stands
    run,        \* per request: the locals of its goroutine
    hist        \* per request: what its goroutine has done so far

vars == <<webhookURL, tmpDir, dirs, files, crashed, req, resp, spawned,
          pc, run, hist>>

NoReq == [arrived |-> FALSE, ct |-> <<>>,
          body |-> [json |-> FALSE, type |-> 0, obj |-> FullObject]]

\* Locals of one processScan goroutine: the object, the name read from tmpDir
\* for a system call, the path, and what scan returned (err, res).  For the
\* time of its call of getTempFilename it also remembers what the call found
\* on entry: the value of tmpDir (dir0) and whether that named a directory
\* (isDir0).
NoRun == [object |-> FullObject, name |-> EmptyString, path |-> EmptyString,
          err |-> NoErr, res |-> CleanResult,
          dir0 |-> EmptyString, isDir0 |-> FALSE]

\* What one goroutine has done: paths getTempFilename returned, directories
\* and files it created, calls to the store (by operation), what each call of
\* the scan engine answered, the messages passed to sendWebhook and what each call returned,
\* the attachments posted with the endpoint's answers, lines logged at error
\* and info level, and the branch processScan took.
NoHist == [paths |-> <<>>, mkdirs |-> <<>>, mkdirFailed |-> FALSE,
           created |-> <<>>, createFailed |-> FALSE,
           weed |-> <<>>, fetchErr |-> NoErr,
           engine |-> <<>>,
           sent |-> <<>>, returned |-> <<>>, posts |-> <<>>,
           errorLogs |-> 0, infoLogs |-> 0, branch |-> "none"]

Init ==
    /\ webhookURL \in WebhookURLs
    /\ tmpDir = EmptyString
    /\ dirs = {}
    /\ files = {}
    /\ crashed = FALSE
    /\ req = [r \in Reqs |-> NoReq]
    /\ resp = [r \in Reqs |-> NoResp]
    /\ spawned = [r \in Reqs |-> 0]
    /\ pc = [r \in Reqs |-> "none"]
    /\ run = [r \in Reqs |-> NoRun]
    /\ hist = [r \in Reqs |-> NoHist]

----------------------------------------------------------------------------
(* POST /v1/scanObject.async                                               *)

\* Requests are numbered in the order the server starts on them; a request
\* has been taken up when the POST handler received it or the router
\* answered it.
NextToArrive(r) ==
    /\ ~crashed
    /\ ~req[r].arrived /\ resp[r] = NoResp
    /\ IF r = 1 THEN TRUE ELSE req[r - 1].arrived \/ resp[r - 1] # NoResp

\* Lines 131-158: a request for anything but POST /v1/scanObject.async is
\* answered by the router (index, 404 or 405); the POST handler never sees
\* it.  PanicHandler answers only when a handler panics, and none of the
\* handlers of this program does.
Route(r) ==
    /\ NextToArrive(r)
    /\ \E route \in OtherRoutes : resp' = [resp EXCEPT ![r] = RouterResponse(route)]
    /\ UNCHANGED <<webhookURL, tmpDir, dirs, files, crashed, req, spawned, pc, run, hist>>

\* Lines 165-189: a request that fails a check is answered 400.
POSTReject(r) ==
    /\ NextToArrive(r)
    /\ \E ct \in ContentTypes, body \in Bodies :
         /\ Validate(ct, body) # "ok"
         /\ req' = [req EXCEPT ![r] = [arrived |-> TRUE, ct |-> ct, body |-> body]]
         /\ resp' = [resp EXCEPT ![r] = RejectResponse(Validate(ct, body))]
    /\ UNCHANGED <<webhookURL, tmpDir, dirs, files, crashed, spawned, pc, run, hist>>

\* Lines 165-192: a request that passes the checks starts its goroutine.
POSTSpawn(r) ==
    /\ NextToArrive(r)
    /\ \E ct \in ContentTypes, body \in Bodies :
         /\ Validate(ct, body) = "ok"
         /\ req' = [req EXCEPT ![r] = [arrived |-> TRUE, ct |-> ct, body |-> body]]
         /\ run' = [run EXCEPT ![r].object = Unmarshal(body).data]
    /\ spawned' = [spawned EXCEPT ![r] = @ + 1]
    /\ pc' = [pc EXCEPT ![r] = "L215"]
    /\ UNCHANGED <<webhookURL, tmpDir, dirs, files, crashed, resp, hist>>

\* Lines 193-194: the handler goes on to answer, whatever the goroutine does.
POSTRespondWaits(r) ==
    /\ ~crashed
    /\ req[r].arrived
    /\ spawned[r] > 0
    /\ pc[r] = "done"
    /\ resp[r] = NoResp
    /\ resp' = [resp EXCEPT ![r] = AcceptResponse]
    /\ UNCHANGED <<webhookURL, tmpDir, dirs, files, crashed, req, spawned, pc, run, hist>>

POSTRespond(r) ==
    /\ ~crashed
    /\ req[r].arrived
    /\ spawned[r] > 0
    /\ resp[r] = NoResp
    /\ resp' = [resp EXCEPT ![r] = AcceptResponse]
    /\ UNCHANGED <<webhookURL, tmpDir, dirs, files, crashed, req, spawned, pc, run, hist>>

----------------------------------------------------------------------------
(* getTempFilename, one action per access to tmpDir or to the file system  *)

At(r, l) == ~crashed /\ pc[r] = l

\* Line 215: if tmpDir == ""
L215(r) ==
    /\ At(r, "L215")
    /\ pc' = [pc EXCEPT ![r] = IF tmpDir = EmptyString THEN "L216" ELSE "L220"]
    /\ run' = [run EXCEPT ![r].dir0 = tmpDir, ![r].isDir0 = StatIsDir(tmpDir, dirs)]
    /\ UNCHANGED <<webhookURL, tmpDir, dirs, files, crashed, req, resp, spawned, hist>>

\* Line 215 racing with line 216 of another goroutine.  tmpDir is read and
\* written without synchronisation, and a Go string is two words (data
\* pointer, length): a read that races with the first write (from "") may see
\* the new length and not yet the new pointer.  The test of line 215 then
\* finds tmpDir non-empty, and a use of the string before the pointer arrives
\* (line 220) dereferences nil.  Every later write replaces a value by one of
\* the same length, so that a torn read of it is the old or the new value.
L215torn(r) ==
    /\ At(r, "L215")
    /\ tmpDir = EmptyString
    /\ \E q \in Reqs \ {r} : pc[q] = "L216"
    /\ pc' = [pc EXCEPT ![r] = "L220"]
    /\ run' = [run EXCEPT ![r].dir0 = tmpDir, ![r].isDir0 = StatIsDir(tmpDir, dirs)]
    /\ UNCHANGED <<webhookURL, tmpDir, dirs, files, crashed, req, resp, spawned, hist>>

L220panic(r) ==
    /\ At(r, "L220")
    /\ tmpDir = EmptyString
    /\ crashed' = TRUE
    /\ pc' = [pc EXCEPT ![r] = "panic"]
    /\ UNCHANGED <<webhookURL, tmpDir, dirs, files, req, resp, spawned, run, hist>>

\* Line 216: tmpDir = os.TempDir() + "/bitscan_" + uniuri.New()
L216(r) ==
    /\ At(r, "L216")
    /\ tmpDir' = BitscanDir(uniuriNew(r, "L216"))
    /\ pc' = [pc EXCEPT ![r] = "L220"]
    /\ UNCHANGED <<webhookURL, dirs, files, crashed, req, resp, spawned, run, hist>>

\* Line 220: the argument of os.Stat(tmpDir) is read ...
L220(r) ==
    /\ At(r, "L220")
    /\ tmpDir # EmptyString
    /\ run' = [run EXCEPT ![r].name = tmpDir]
    /\ pc' = [pc EXCEPT ![r] = "L220stat"]
    /\ UNCHANGED <<webhookURL, tmpDir, dirs, files, crashed, req, resp, spawned, hist>>

\* A test of line 221 that takes the create branch whatever os.Stat said.
L220statAlwaysCreates(r) ==
    /\ At(r, "L220stat")
    /\ pc' = [pc EXCEPT ![r] = "L222"]
    /\ UNCHANGED <<webhookURL, tmpDir, dirs, files, crashed, req, resp, spawned, run, hist>>

\* ... and lines 220-221: os.Stat answers; if err != nil || !info.IsDir()
L220stat(r) ==
    /\ At(r, "L220stat")
    /\ pc' = [pc EXCEPT ![r] = IF StatIsDir(run[r].name, dirs) THEN "L230" ELSE "L222"]
    /\ UNCHANGED <<webhookURL, tmpDir, dirs, files, crashed, req, resp, spawned, run, hist>>

\* Line 222 under a lock held from the test of line 221 to the return: the
\* write waits while another goroutine is between its write and its return.
L222Locked(r) ==
    /\ At(r, "L222")
    /\ \A q \in Reqs \ {r} : pc[q] \notin {"L223", "L223mkdir", "L230"}
    /\ tmpDir' = BitscanDir(uniuriNew(r, "L222"))
    /\ pc' = [pc EXCEPT ![r] = "L223"]
    /\ UNCHANGED <<webhookURL, dirs, files, crashed, req, resp, spawned, run, hist>>

\* Line 222: tmpDir = os.TempDir() + "/bitscan_" + uniuri.New()
L222(r) ==
    /\ At(r, "L222")
    /\ tmpDir' = BitscanDir(uniuriNew(r, "L222"))
    /\ pc' = [pc EXCEPT ![r] = "L223"]
    /\ UNCHANGED <<webhookURL, dirs, files, crashed, req, resp, spawned, run, hist>>

\* Line 223: the argument of os.Mkdir(tmpDir, folderFileMode) is read ...
L223(r) ==
    /\ At(r, "L223")
    /\ run' = [run EXCEPT ![r].name = tmpDir]
    /\ pc' = [pc EXCEPT ![r] = "L223mkdir"]
    /\ UNCHANGED <<webhookURL, tmpDir, dirs, files, crashed, req, resp, spawned, hist>>

\* ... and lines 223-227: os.Mkdir answers.  It fails when the name exists
\* (EEXIST) or when the environment refuses; getTempFilename then logs and
\* returns ("", err), scan returns (nil, err) at line 303.
MkdirError(name, ds, outcome) ==
    IF name \in ds THEN <<"mkdir: file exists">>
    ELSE IF outcome = "fail" THEN <<"mkdir: permission denied">>
    ELSE NoErr

L223mkdir(r) ==
    /\ At(r, "L223mkdir")
    /\ \E outcome \in SyscallOutcomes :
         LET e == MkdirError(run[r].name, dirs, outcome) IN
         IF e = NoErr
         THEN /\ dirs' = dirs \cup {run[r].name}
              /\ hist' = [hist EXCEPT ![r].mkdirs = Append(@, run[r].name)]
              /\ pc' = [pc EXCEPT ![r] = "L230"]
              /\ run' = run
         ELSE /\ dirs' = dirs
              /\ hist' = [hist EXCEPT ![r].mkdirFailed = TRUE,
                                      ![r].errorLogs = @ + 1]
              /\ run' = [run EXCEPT ![r].err = e,
                                    ![r].dir0 = EmptyString, ![r].isDir0 = FALSE]
              /\ pc' = [pc EXCEPT ![r] = "L259"]
    /\ UNCHANGED <<webhookURL, tmpDir, files, crashed, req, resp, spawned>>

\* Line 230: return tmpDir + "/" + uniuri.New() + ext, nil
getTempFilenamePath(dir, n, ext) == TempPath(dir, n, ext)

L230(r) ==
    /\ At(r, "L230")
    /\ LET p == getTempFilenamePath(tmpDir, uniuriNew(r, "L230"), Ext(run[r].object.Key)) IN
         /\ run' = [run EXCEPT ![r].path = p,
                               ![r].dir0 = EmptyString, ![r].isDir0 = FALSE]
         /\ hist' = [hist EXCEPT ![r].paths = Append(@, p)]
    /\ pc' = [pc EXCEPT ![r] = "L307"]
    /\ UNCHANGED <<webhookURL, tmpDir, dirs, files, crashed, req, resp, spawned>>

----------------------------------------------------------------------------
(* scan, after getTempFilename                                             *)

\* Lines 307-315: os.Create(path) fails when the directory of the path does
\* not exist or when the environment refuses.
CreateError(path, ds, outcome) ==
    IF PathDir(path) \notin ds THEN <<"open: no such file or directory">>
    ELSE IF outcome = "fail" THEN <<"open: permission denied">>
    ELSE NoErr

L307KeepsGoing(r) ==
    /\ At(r, "L307")
    /\ \E outcome \in SyscallOutcomes :
         LET e == CreateError(run[r].path, dirs, outcome) IN
         IF e = NoErr
         THEN /\ files' = files \cup {run[r].path}
              /\ hist' = [hist EXCEPT ![r].created = Append(@, run[r].path)]
         ELSE /\ files' = files
              /\ hist' = [hist EXCEPT ![r].createFailed = TRUE,
                                      ![r].errorLogs = @ + 1]
    /\ pc' = [pc EXCEPT ![r] = "L318"]
    /\ UNCHANGED <<webhookURL, tmpDir, dirs, crashed, req, resp, spawned, run>>

L307(r) ==
    /\ At(r, "L307")
    /\ \E outcome \in SyscallOutcomes :
         LET e == CreateError(run[r].path, dirs, outcome) IN
         IF e = NoErr
         THEN /\ files' = files \cup {run[r].path}
              /\ hist' = [hist EXCEPT ![r].created = Append(@, run[r].path)]
              /\ pc' = [pc EXCEPT ![r] = "L318"]
              /\ run' = run
         ELSE /\ files' = files
              /\ hist' = [hist EXCEPT ![r].createFailed = TRUE,
                                      ![r].errorLogs = @ + 1]
              /\ run' = [run EXCEPT ![r].err = <<"failed to create temporary file: ">> \o e]
              /\ pc' = [pc EXCEPT ![r] = "L259"]
    /\ UNCHANGED <<webhookURL, tmpDir, dirs, crashed, req, resp, spawned>>

\* Line 318: *object.BackendFileID dereferences the pointer; on nil the
\* goroutine panics, and a panic no one recovers ends the process.
L318panic(r) ==
    /\ At(r, "L318")
    /\ run[r].object.BackendFileID = NilPtr
    /\ crashed' = TRUE
    /\ pc' = [pc EXCEPT ![r] = "panic"]
    /\ UNCHANGED <<webhookURL, tmpDir, dirs, files, req, resp, spawned, run, hist>>

\* A scan that logs a failed fetch and goes on to the engine all the same.
L318IgnoresError(r) ==
    /\ At(r, "L318")
    /\ run[r].object.BackendFileID # NilPtr
    /\ \E e \in FetchOutcomes :
         IF e = NoErr
         THEN hist' = [hist EXCEPT ![r].weed = Append(@, "GET")]
         ELSE hist' = [hist EXCEPT ![r].weed = Append(@, "GET"),
                                   ![r].fetchErr = e,
                                   ![r].errorLogs = @ + 1]
    /\ pc' = [pc EXCEPT ![r] = "L327"]
    /\ UNCHANGED <<webhookURL, tmpDir, dirs, files, crashed, req, resp, spawned, run>>

\* Lines 318-325: seaweed.Get(file, *object.BackendFileID, "")
L318(r) ==
    /\ At(r, "L318")
    /\ run[r].object.BackendFileID # NilPtr
    /\ \E e \in FetchOutcomes :
         IF e = NoErr
         THEN /\ hist' = [hist EXCEPT ![r].weed = Append(@, "GET")]
              /\ pc' = [pc EXCEPT ![r] = "L327"]
              /\ run' = run
         ELSE /\ hist' = [hist EXCEPT ![r].weed = Append(@, "GET"),
                                      ![r].fetchErr = e,
                                      ![r].errorLogs = @ + 1]
              /\ run' = [run EXCEPT ![r].err =
                             <<"failed to get file from SeaweedFS backend: ">> \o e]
              /\ pc' = [pc EXCEPT ![r] = "L259"]
    /\ UNCHANGED <<webhookURL, tmpDir, dirs, files, crashed, req, resp, spawned>>

\* Lines 327-336: clamscan.Scan(&clamscan.Options{}, path), then <-res
L327(r) ==
    /\ At(r, "L327")
    /\ \E o \in ScanOutcomes :
         IF o.err = NoErr
         THEN /\ hist' = [hist EXCEPT ![r].engine = Append(@, o)]
              /\ run' = [run EXCEPT ![r].res = o.res]
         ELSE /\ hist' = [hist EXCEPT ![r].engine = Append(@, o),
                                      ![r].errorLogs = @ + 1]
              /\ run' = [run EXCEPT ![r].err = <<"failed to scan file: ">> \o o.err]
    /\ pc' = [pc EXCEPT ![r] = "L259"]
    /\ UNCHANGED <<webhookURL, tmpDir, dirs, files, crashed, req, resp, spawned>>

----------------------------------------------------------------------------
(* processScan, from the return of scan (line 258) to its own return       *)

\* One call sendWebhook(msg) in the history h of a goroutine: the message is
\* passed; with a URL the attachment is posted and the endpoint answers o;
\* a non-nil return is logged by processScan ("failed to invoke webhook").
\* A notifier that tries a second time when the first delivery failed.
AfterSendWebhookRetries(h, url, msg, o) ==
    LET ret == sendWebhookReturn(url, o)
        h1  == [h EXCEPT !.sent = Append(@, msg), !.returned = Append(@, ret)]
        h2  == IF sendWebhookPosts(url)
               THEN [h1 EXCEPT !.posts = Append(@, [att |-> Attachment(msg),
                                                    url |-> url, answer |-> o])]
               ELSE h1
    IN  IF ret # NoErr
        THEN [h2 EXCEPT !.errorLogs = @ + 1,
                        !.sent = Append(@, msg), !.returned = Append(@, ret)]
        ELSE h2

AfterSendWebhook(h, url, msg, o) ==
    LET ret == sendWebhookReturn(url, o)
        h1  == [h EXCEPT !.sent = Append(@, msg), !.returned = Append(@, ret)]
        h2  == IF sendWebhookPosts(url)
               THEN [h1 EXCEPT !.posts = Append(@, [att |-> Attachment(msg),
                                                    url |-> url, answer |-> o])]
               ELSE h1
    IN  IF ret # NoErr THEN [h2 EXCEPT !.errorLogs = @ + 1] ELSE h2

\* A processScan that removes the temp file of a run before it returns.
L259RemovesTempFile(r) ==
    /\ At(r, "L259")
    /\ LET b   == processScanBranch(run[r].err, run[r].res)
           msg == processScanMessage(b, run[r].object, run[r].err, run[r].res)
           h0  == [hist[r] EXCEPT !.branch = b]
           h1  == IF b = "found" THEN [h0 EXCEPT !.infoLogs = @ + 1] ELSE h0
       IN  IF b = "clean"
           THEN hist' = [hist EXCEPT ![r] = h1]
           ELSE \E o \in PostOutcomes :
                   hist' = [hist EXCEPT ![r] = AfterSendWebhook(h1, webhookURL, msg, o)]
    /\ files' = files \ {run[r].path}
    /\ pc' = [pc EXCEPT ![r] = "done"]
    /\ UNCHANGED <<webhookURL, tmpDir, dirs, crashed, req, resp, spawned, run>>

\* Lines 259-297.
L259(r) ==
    /\ At(r, "L259")
    /\ LET b   == processScanBranch(run[r].err, run[r].res)
           msg == processScanMessage(b, run[r].object, run[r].err, run[r].res)
           h0  == [hist[r] EXCEPT !.branch = b]
           h1  == IF b = "found" THEN [h0 EXCEPT !.infoLogs = @ + 1] ELSE h0
       IN  IF b = "clean"
           THEN hist' = [hist EXCEPT ![r] = h1]
           ELSE \E o \in PostOutcomes :
                   hist' = [hist EXCEPT ![r] = AfterSendWebhook(h1, webhookURL, msg, o)]
    /\ pc' = [pc EXCEPT ![r] = "done"]
    /\ UNCHANGED <<webhookURL, tmpDir, dirs, files, crashed, req, resp, spawned, run>>

----------------------------------------------------------------------------

Next ==
    \E r \in Reqs :
        \/ Route(r)
        \/ POSTReject(r)
        \/ POSTSpawn(r)
        \/ POSTRespond(r)
        \/ L215(r)
        \/ L215torn(r)
        \/ L220panic(r)
        \/ L216(r)
        \/ L220(r)
        \/ L220stat(r)
        \/ L222(r)
        \/ L223(r)
        \/ L223mkdir(r)
        \/ L230(r)
        \/ L307(r)
        \/ L318panic(r)
        \/ L318(r)
        \/ L327(r)
        \/ L259(r)

Spec == Init /\ [][Next]_vars

\* The same program under a scheduler that lets a goroutine enter
\* getTempFilename only when no other goroutine is inside it (from its first
\* read of tmpDir at line 215 to its return): calls that do not overlap in
\* time.  A torn read needs a second goroutine inside and is left out.
InGetTempFilename(q) ==
    pc[q] \in {"L216", "L220", "L220stat", "L222", "L223", "L223mkdir", "L230"}

NextSeq ==
    \E r \in Reqs :
        \/ Route(r)
        \/ POSTReject(r)
        \/ POSTSpawn(r)
        \/ POSTRespond(r)
        \/ (\A q \in Reqs \ {r} : ~InGetTempFilename(q)) /\ L215(r)
        \/ L216(r)
        \/ L220(r)
        \/ L220stat(r)
        \/ L222(r)
        \/ L223(r)
        \/ L223mkdir(r)
        \/ L230(r)
        \/ L307(r)
        \/ L318panic(r)
        \/ L318(r)
        \/ L327(r)
        \/ L259(r)

SpecSeq == Init /\ [][NextSeq]_vars

----------------------------------------------------------------------------
(* Properties                                                              *)

\* The goroutine of request r has returned from processScan.
Done(r) == pc[r] = "done"

\* The checks of the handler, stated on the request itself.
CtypeIsJSON(r) == Len(req[r].ct) > 0 /\ req[r].ct[1] = "application/json"
BodyParses(r)  == req[r].body.json /\ req[r].body.type \in 0..255
TypeIsZero(r)  == req[r].body.type = 0
PassesChecks(r) == CtypeIsJSON(r) /\ BodyParses(r) /\ TypeIsZero(r)

\* The one message a goroutine passed to sendWebhook is the error message
\* for its object: color "danger", titled with the bucket key.
SentOneError(r) ==
    /\ Len(hist[r].sent) = 1
    /\ hist[r].sent[1].color = "danger"
    /\ hist[r].sent[1].title = <<"Error scanning <bq>", run[r].object.BucketKey, "<bq>">>

\* With a webhook URL each message passed to sendWebhook is posted once, as
\* one attachment carrying its title, text and color; without, nothing is.
PostedAsSent(r) ==
    IF webhookURL = ""
    THEN hist[r].posts = <<>>
    ELSE /\ Len(hist[r].posts) = Len(hist[r].sent)
         /\ \A i \in 1..Len(hist[r].sent) :
              /\ hist[r].posts[i].att.Title = hist[r].sent[i].title
              /\ hist[r].posts[i].att.Text = hist[r].sent[i].text
              /\ hist[r].posts[i].att.Color = hist[r].sent[i].color

\* C1: a goroutine is started for a request only if its Content-Type begins
\* with application/json, its body parses and its type is 0; a request that
\* fails a check is answered 400, with the message of the first check that
\* fails, and no goroutine is ever started for it.
C1_RejectedNeverStarts ==
    \A r \in Reqs :
        /\ spawned[r] <= 1
        /\ spawned[r] = 1 => req[r].arrived /\ PassesChecks(r)
        /\ (req[r].arrived /\ ~PassesChecks(r)) =>
              /\ resp[r].status = 400
              /\ spawned[r] = 0
              /\ pc[r] = "none"
              /\ hist[r] = NoHist
              /\ resp[r].message =
                    IF ~CtypeIsJSON(r) THEN "Bad Request (Content-Type not JSON)"
                    ELSE IF ~BodyParses(r) THEN "Bad Request (could not parse JSON body)"
                    ELSE "Bad Request (invalid object type)"

\* A request with a JSON Content-Type and a parsable body of type 1 has been
\* answered 400 while the request before it runs its pipeline.
C1_Witness ==
    /\ req[2].arrived /\ CtypeIsJSON(2) /\ BodyParses(2) /\ ~TypeIsZero(2)
    /\ resp[2].status = 400
    /\ spawned[1] = 1 /\ pc[1] = "L327"

C3_OnePathEachPairwiseDistinct ==
    (\A r \in Reqs : run[r].err # <<"mkdir: permission denied">>) =>
        /\ \A r \in Reqs :
              pc[r] \in {"L307", "L318", "L327", "L259", "done", "panic"} =>
                  Len(hist[r].paths) = 1
        /\ \A r1, r2 \in Reqs :
              (r1 # r2 /\ hist[r1].paths # <<>> /\ hist[r2].paths # <<>>) =>
                  hist[r1].paths[1] # hist[r2].paths[1]

\* C4: without a webhook URL nothing is ever posted, whatever the goroutines
\* pass to sendWebhook, and every call of sendWebhook returns nil.
C4_NoURLNoPost ==
    webhookURL = "" =>
        \A r \in Reqs :
            /\ hist[r].posts = <<>>
            /\ \A i \in 1..Len(hist[r].returned) : hist[r].returned[i] = NoErr
            /\ Len(hist[r].returned) = Len(hist[r].sent)

\* Without a URL, one goroutine ended on a detection and one on a failed
\* fetch, and each called sendWebhook.
C4_Witness ==
    /\ webhookURL = ""
    /\ Done(1) /\ hist[1].branch = "found" /\ Len(hist[1].returned) = 1
    /\ Done(2) /\ hist[2].branch = "scanErr" /\ Len(hist[2].returned) = 1

\* C5: a goroutine whose fetch failed never calls the scan engine and passes
\* at most one message to sendWebhook; when it has returned it has passed
\* exactly one, the error message (color "danger", titled with the bucket
\* key, carrying the fetch error), posted once if a URL is set.
C5_FetchFailedOneDanger ==
    \A r \in Reqs :
        hist[r].fetchErr # NoErr =>
            /\ hist[r].engine = <<>>
            /\ Len(hist[r].sent) <= 1
            /\ Done(r) =>
                  /\ SentOneError(r)
                  /\ \A i \in 1..Len(hist[r].fetchErr) :
                        Contains(hist[r].sent[1].text, hist[r].fetchErr[i])
                  /\ PostedAsSent(r)

\* A goroutine has returned after a failed fetch, with a webhook URL set.
C5_Witness ==
    \E r \in Reqs :
        /\ Done(r) /\ hist[r].fetchErr # NoErr
        /\ webhookURL # "" /\ Len(hist[r].posts) = 1

\* The engine of goroutine r answered with a detection (no error, found).
EngineDetected(r) ==
    /\ Len(hist[r].engine) = 1
    /\ hist[r].engine[1].err = NoErr
    /\ hist[r].engine[1].res.Error = NoErr
    /\ hist[r].engine[1].res.Found

\* C6: a goroutine whose engine reported a detection with virus name v, for
\* an object with bucket key k and MD5 hash m, has passed exactly one message
\* to sendWebhook when it returns; its text contains k, m and v; and the
\* store was never asked to delete anything.
C6_DetectedNamesKeyAndMD5 ==
    \A r \in Reqs :
        (Done(r) /\ EngineDetected(r) /\ run[r].object.MD5Hash # NilPtr) =>
            /\ Len(hist[r].sent) = 1
            /\ Contains(hist[r].sent[1].text, run[r].object.BucketKey)
            /\ Contains(hist[r].sent[1].text, run[r].object.MD5Hash.elem)
            /\ Contains(hist[r].sent[1].text, hist[r].engine[1].res.Virus)
            /\ \A q \in Reqs : \A i \in 1..Len(hist[q].weed) : hist[q].weed[i] # "DELETE"

\* The engine of goroutine r answered clean (no error, nothing found).
EngineClean(r) ==
    /\ Len(hist[r].engine) = 1
    /\ hist[r].engine[1].err = NoErr
    /\ hist[r].engine[1].res.Error = NoErr
    /\ ~hist[r].engine[1].res.Found

\* C7: a goroutine whose engine reported clean passes nothing to sendWebhook,
\* posts nothing and logs nothing at error level, up to and including its
\* return.
C7_CleanIsSilent ==
    \A r \in Reqs :
        EngineClean(r) =>
            /\ hist[r].sent = <<>>
            /\ hist[r].posts = <<>>
            /\ hist[r].errorLogs = 0
            /\ hist[r].infoLogs = 0
            /\ Done(r) => hist[r].branch = "clean"

\* With a webhook URL set, a goroutine has returned on a clean verdict.
C7_Witness ==
    \E r \in Reqs : webhookURL # "" /\ Done(r) /\ EngineClean(r)

\* The engine of goroutine r failed: clamscan.Scan returned an error, or the
\* result it delivered carries one.
EngineFailed(r) ==
    /\ Len(hist[r].engine) = 1
    /\ \/ hist[r].engine[1].err # NoErr
       \/ hist[r].engine[1].res.Error # NoErr

EngineError(r) ==
    IF hist[r].engine[1].err # NoErr
    THEN hist[r].engine[1].err
    ELSE hist[r].engine[1].res.Error

\* C8: a goroutine whose engine failed has, when it returns, passed exactly
\* one message to sendWebhook: the error message (color "danger", titled
\* with the bucket key) carrying the engine's error, also when the result
\* says a virus was found.
C8_EngineFailureOneDanger ==
    \A r \in Reqs :
        EngineFailed(r) =>
            /\ Len(hist[r].sent) <= 1
            /\ Done(r) =>
                  /\ SentOneError(r)
                  /\ \A i \in 1..Len(EngineError(r)) :
                        Contains(hist[r].sent[1].text, EngineError(r)[i])
                  /\ hist[r].infoLogs = 0
                  /\ PostedAsSent(r)

\* One goroutine returned after clamscan.Scan failed, another after a result
\* that carries an error and says a virus was found.
C8_Witness ==
    /\ Done(1) /\ hist[1].engine # <<>> /\ hist[1].engine[1].err # NoErr
    /\ Done(2) /\ hist[2].engine # <<>> /\ hist[2].engine[1].err = NoErr
    /\ hist[2].engine[1].res = ErrorFoundResult

\* C9: a goroutine whose os.Mkdir or os.Create failed never calls the store
\* nor the scan engine; when it has returned it has passed exactly one
\* message to sendWebhook, the error message (color "danger") carrying the
\* failure.
C9_IOFailureAborts ==
    \A r \in Reqs :
        (hist[r].mkdirFailed \/ hist[r].createFailed) =>
            /\ hist[r].weed = <<>>
            /\ hist[r].engine = <<>>
            /\ hist[r].created = <<>>
            /\ Len(hist[r].sent) <= 1
            /\ pc[r] \in {"L259", "done"}
            /\ Done(r) =>
                  /\ SentOneError(r)
                  /\ hist[r].sent[1].text = <<"<bq><bq><bq>\n">> \o run[r].err \o <<"<bq><bq><bq>">>
                  /\ PostedAsSent(r)

\* One goroutine returned after os.Mkdir failed, another after os.Create did.
C9_Witness ==
    /\ Done(1) /\ hist[1].mkdirFailed
    /\ Done(2) /\ hist[2].createFailed

\* C10: with a webhook URL, every call of sendWebhook posts exactly once, and
\* it returns nil exactly when the endpoint answers with a 2xx status (an
\* error on a transport failure and on any other status).
C10_ErrorUnlessAnswered2xx ==
    webhookURL # "" =>
        \A r \in Reqs :
            /\ Len(hist[r].posts) = Len(hist[r].sent)
            /\ Len(hist[r].returned) = Len(hist[r].sent)
            /\ \A i \in 1..Len(hist[r].posts) :
                  (hist[r].returned[i] = NoErr) <=>
                      /\ hist[r].posts[i].answer.err = NoErr
                      /\ hist[r].posts[i].answer.status \in 200..299

\* The terminal state of a goroutine that returned, read off what its
\* pipeline steps answered and not off anything the notifier did.
TerminalState(r) ==
    IF hist[r].mkdirFailed \/ hist[r].createFailed \/ hist[r].fetchErr # NoErr
    THEN "fetch-failed"
    ELSE IF EngineFailed(r) THEN "scan-failed"
    ELSE IF EngineDetected(r) THEN "detected"
    ELSE "clean"

\* Lines logged at error level by the pipeline steps of goroutine r.
StepErrorLogs(r) ==
    IF \/ hist[r].mkdirFailed \/ hist[r].createFailed
       \/ hist[r].fetchErr # NoErr
       \/ (hist[r].engine # <<>> /\ hist[r].engine[1].err # NoErr)
    THEN 1 ELSE 0

\* The delivery of the one notification of goroutine r failed.
DeliveryFailed(r) == Len(hist[r].returned) = 1 /\ hist[r].returned[1] # NoErr

\* C11: a failure of the notifier never changes the outcome of a run.  The
\* branch processScan takes is the one its pipeline steps determine; two
\* goroutines whose steps answered alike took the same branch, made the same
\* store and engine calls and passed the same number of messages, whatever
\* sendWebhook returned to each; a failed delivery adds one line at error
\* level and nothing else: no second message, no second post, and the
\* goroutine has returned.
C11_NotifierFailureChangesNothing ==
    \A r \in Reqs :
        /\ Len(hist[r].sent) <= 1
        /\ Len(hist[r].posts) <= 1
        /\ Len(hist[r].returned) = Len(hist[r].sent)
        /\ hist[r].sent # <<>> => Done(r)
        /\ Done(r) =>
              /\ hist[r].branch = CASE TerminalState(r) = "fetch-failed" -> "scanErr"
                                    [] TerminalState(r) = "scan-failed" ->
                                          IF hist[r].engine[1].err # NoErr
                                          THEN "scanErr" ELSE "resErr"
                                    [] TerminalState(r) = "detected" -> "found"
                                    [] OTHER -> "clean"
              /\ hist[r].errorLogs =
                    StepErrorLogs(r) + (IF DeliveryFailed(r) THEN 1 ELSE 0)
              /\ \A q \in Reqs :
                    (/\ Done(q)
                     /\ hist[q].mkdirFailed = hist[r].mkdirFailed
                     /\ hist[q].createFailed = hist[r].createFailed
                     /\ hist[q].fetchErr = hist[r].fetchErr
                     /\ hist[q].engine = hist[r].engine) =>
                        /\ hist[q].branch = hist[r].branch
                        /\ hist[q].weed = hist[r].weed
                        /\ Len(hist[q].sent) = Len(hist[r].sent)
                        /\ TerminalState(q) = TerminalState(r)

\* Two goroutines whose engines reported the same detection have returned;
\* the delivery of the first one's notification failed, the second's did not.
C11_Witness ==
    /\ webhookURL # ""
    /\ Done(1) /\ EngineDetected(1) /\ DeliveryFailed(1)
    /\ Done(2) /\ EngineDetected(2) /\ ~DeliveryFailed(2)
    /\ hist[1].engine = hist[2].engine

\* C12: a goroutine that stands at the fetch (line 318) holds an object
\* whose BackendFileID is present; a request whose body carries no
\* backend_file_id is answered 400 and never starts a goroutine.
C12_FetchHasBackendFileID ==
    \A r \in Reqs :
        /\ pc[r] = "L318" => run[r].object.BackendFileID # NilPtr
        /\ (req[r].arrived /\ req[r].body.json
                /\ req[r].body.obj.BackendFileID = NilPtr) =>
              /\ spawned[r] = 0
              /\ resp[r].status = 400

\* C13: no step deletes a temp file.  Every file a goroutine created is
\* still there at every later state, whatever the goroutine went on to do
\* (failed fetch, failed scan, detection, clean, panic) and whatever the
\* other goroutines do; and no directory created is removed either.
C13_TempFilesStay ==
    \A r \in Reqs :
        /\ \A i \in 1..Len(hist[r].created) : hist[r].created[i] \in files
        /\ \A i \in 1..Len(hist[r].mkdirs) : hist[r].mkdirs[i] \in dirs

\* Both goroutines created a temp file and returned, one with a detection
\* and one after a failed fetch; both files exist.
C13_Witness ==
    /\ Done(1) /\ Len(hist[1].created) = 1 /\ EngineDetected(1)
    /\ Done(2) /\ Len(hist[2].created) = 1 /\ hist[2].fetchErr # NoErr
    /\ hist[1].created[1] # hist[2].created[1]
    /\ {hist[1].created[1], hist[2].created[1]} \subseteq files

\* C14: a goroutine started for an accepted request, whatever optional
\* members its object carries, does not end abnormally: once it has created
\* its temp file it stands at a later step of the pipeline or has returned
\* from processScan in one of the four terminal states; it never stands
\* at a panic.
C14_RunEndsInTerminalState ==
    \A r \in Reqs :
        hist[r].created # <<>> =>
            /\ pc[r] \in {"L318", "L327", "L259", "done"}
            /\ Done(r) => TerminalState(r) \in
                             {"fetch-failed", "scan-failed", "detected", "clean"}

\* C15: within one goroutine the steps come in the order allocate, create,
\* fetch, scan, notify.  Each of them happens at most once; the file is
\* created only at the path allocated, the store is asked only after the
\* file was created, the engine runs only after the fetch succeeded;
\* sendWebhook is called last (the goroutine has returned), and it is called
\* exactly once iff the terminal state is not clean.
C15_StepsInOrderAtMostOnce ==
    \A r \in Reqs :
        /\ Len(hist[r].paths) <= 1
        /\ Len(hist[r].created) <= 1
        /\ Len(hist[r].weed) <= 1
        /\ Len(hist[r].engine) <= 1
        /\ Len(hist[r].sent) <= 1
        /\ hist[r].paths # <<>> => ~hist[r].mkdirFailed
        /\ (hist[r].created # <<>> \/ hist[r].createFailed) =>
              /\ Len(hist[r].paths) = 1
              /\ ~(hist[r].created # <<>> /\ hist[r].createFailed)
              /\ hist[r].created \in {<<>>, hist[r].paths}
        /\ hist[r].weed # <<>> => Len(hist[r].created) = 1
        /\ hist[r].engine # <<>> => hist[r].weed = <<"GET">> /\ hist[r].fetchErr = NoErr
        /\ hist[r].sent # <<>> => Done(r)
        /\ Done(r) =>
              /\ Len(hist[r].sent) = 1 <=> TerminalState(r) # "clean"
              /\ TerminalState(r) = "clean" => EngineClean(r)
              /\ TerminalState(r) \in {"scan-failed", "detected"} => Len(hist[r].engine) = 1

\* One goroutine returned after a failed fetch, with no engine call and one
\* message; the other returned clean after all four steps, with none.
C15_Witness ==
    /\ Done(1) /\ hist[1].fetchErr # NoErr /\ hist[1].engine = <<>>
    /\ Len(hist[1].sent) = 1
    /\ Done(2) /\ EngineClean(2) /\ hist[2].weed = <<"GET">>
    /\ Len(hist[2].created) = 1 /\ hist[2].sent = <<>>

\* The names goroutine q can have written to tmpDir (lines 216 and 222).
WrittenBy(q) == { BitscanDir(uniuriNew(q, "L216")), BitscanDir(uniuriNew(q, "L222")) }

\* C16: tmpDir is read and written without mutual exclusion.  A goroutine
\* that stands at a read or a write of tmpDir inside getTempFilename can
\* take that step whatever the other goroutines are doing; and a temp file
\* lies in a directory other than the one tmpDir names only because another
\* goroutine has rewritten tmpDir.
C16_NoMutualExclusion ==
    \A r \in Reqs :
        /\ At(r, "L215") => ENABLED (L215(r) \/ L215torn(r))
        /\ At(r, "L216") => ENABLED L216(r)
        /\ At(r, "L222") => ENABLED L222(r)
        /\ At(r, "L223") => ENABLED L223(r)
        /\ At(r, "L230") => ENABLED L230(r)
        /\ (hist[r].created # <<>> /\ PathDir(hist[r].created[1]) # tmpDir) =>
              \E q \in Reqs \ {r} : tmpDir \in WrittenBy(q)

\* Both goroutines took the create branch and each created a scratch
\* directory of its own; the temp file of one of them lies in a directory
\* that tmpDir does not name.
C16_Witness ==
    /\ Len(hist[1].mkdirs) = 1 /\ Len(hist[2].mkdirs) = 1
    /\ hist[1].mkdirs[1] # hist[2].mkdirs[1]
    /\ {hist[1].mkdirs[1], hist[2].mkdirs[1]} \subseteq dirs
    /\ \E r \in Reqs :
          /\ Len(hist[r].created) = 1
          /\ PathDir(hist[r].created[1]) # tmpDir

\* C17: allocate calls that do not overlap in time.  A call that finds on
\* entry that tmpDir names a directory returns a path inside that directory,
\* has left tmpDir as it was and has created no directory.  A call that
\* finds tmpDir unset, or naming nothing that is a directory, and returns a
\* path has set tmpDir to a name no one used before, has created exactly
\* that one directory and returns a path inside it.  A call whose os.Mkdir
\* fails returns an error and no path, and has created nothing.
C17_SequentialAllocate ==
    [][ \A r \in Reqs :
          /\ (pc[r] = "L230" /\ pc'[r] = "L307") =>
                /\ run'[r].err = NoErr
                /\ hist'[r].paths = <<run'[r].path>>
                /\ PathDir(run'[r].path) = tmpDir'
                /\ tmpDir' \in dirs'
                /\ IF run[r].isDir0
                   THEN /\ tmpDir' = run[r].dir0
                        /\ hist'[r].mkdirs = <<>>
                   ELSE /\ tmpDir' # run[r].dir0
                        /\ tmpDir' = BitscanDir(uniuriNew(r, "L222"))
                        /\ hist'[r].mkdirs = <<tmpDir'>>
                        /\ \A q \in Reqs \ {r} : tmpDir' \notin WrittenBy(q)
          /\ (pc[r] = "L223mkdir" /\ pc'[r] = "L259") =>
                /\ ~run[r].isDir0
                /\ run'[r].err # NoErr
                /\ run'[r].path = EmptyString
                /\ hist'[r].paths = <<>>
                /\ hist'[r].mkdirs = <<>>
                /\ dirs' = dirs
      ]_vars

\* The first call found tmpDir unset and created a directory; the second
\* call, after it, found that directory and returned a path inside it
\* without creating one.
C17_Witness ==
    /\ Len(hist[1].mkdirs) = 1 /\ Len(hist[1].paths) = 1
    /\ PathDir(hist[1].paths[1]) = hist[1].mkdirs[1]
    /\ hist[2].mkdirs = <<>> /\ Len(hist[2].paths) = 1
    /\ PathDir(hist[2].paths[1]) = hist[1].mkdirs[1]
    /\ tmpDir = hist[1].mkdirs[1]
    /\ dirs = {tmpDir}

\* C18: a path getTempFilename returned without error lies in a directory
\* that exists: from the return (line 230) to os.Create (line 307) the
\* directory part of the path is a directory, for any interleaving of the
\* goroutines; and no os.Create fails for want of its directory.
C18_ReturnedPathDirExists ==
    \A r \in Reqs :
        /\ pc[r] = "L307" => PathDir(run[r].path) \in dirs
        /\ hist[r].createFailed =>
              run[r].err # <<"failed to create temporary file: ",
                             "open: no such file or directory">>

\* C19: in every response the service writes, the code member of the JSON
\* body equals the HTTP status code: for the index, for each 400, for 404
\* and 405, for an accepted scan request, and for the 500 of PanicHandler.
C19_BodyCodeIsStatus ==
    /\ \A r \in Reqs : resp[r].code = resp[r].status
    /\ RouterResponse("panic").code = RouterResponse("panic").status

====
